---- MODULE Spec2Model ----
(***************************************************************************)
(* Model of scripts/qwen_oauth_to_openapi_bak.py: the Qwen OAuth           *)
(* credential broker.  get_openapi_credentials loads the credential file,  *)
(* refreshes the access token at the token endpoint when is_token_valid    *)
(* says it is stale, saves the refreshed record and derives the            *)
(* {api_key, base_url, model} descriptor.                                  *)
(*                                                                         *)
(* Representation.                                                         *)
(*  - A Python dict is a sequence of <<key, value>> pairs with distinct    *)
(*    keys, in insertion order (Has, Get, Put, Update).                    *)
(*  - A JSON text is its sequence of object members, which may repeat a    *)
(*    key; json_load keeps the last value of a repeated key.               *)
(*  - Token strings are TLA+ strings; URLs, which the code inspects with   *)
(*    startswith/endswith, are sequences of one-character strings.         *)
(*  - Time is in integer milliseconds, as time.time() * 1000.              *)
(***************************************************************************)
EXTENDS Integers, Sequences, FiniteSets, TLC

\* ------------------------------------------------------------ bounds
\* The clock starts at Now0 and advances by TickMs at most MaxTicks times.
Now0 == 100000
TickMs == 15000
MaxTicks == 1
\* Number of get_openapi_credentials calls a caller makes.
MaxCalls == 2

\* ------------------------------------------------- program constants
QWEN_OAUTH_CLIENT_ID == "f0304373b74a44d2b584a3fb70ca9e56"
QWEN_DEFAULT_BASE_URL ==
  <<"h","t","t","p","s",":","/","/","d","a","s","h","s","c","o","p","e",".",
    "a","l","i","y","u","n","c","s",".","c","o","m","/","c","o","m","p","a",
    "t","i","b","l","e","-","m","o","d","e","/","v","1">>
TOKEN_REFRESH_BUFFER_MS == 30 * 1000
DEFAULT_MODEL == "qwen3-coder-plus"
DEFAULT_TOKEN_TYPE == "Bearer"

\* ------------------------------------------------------- Python dicts
Keys(d) == {d[i][1] : i \in 1..Len(d)}
\* k in d
Has(d, k) == k \in Keys(d)
\* d[k], for k in d
Get(d, k) == d[CHOOSE i \in 1..Len(d) : d[i][1] = k][2]
\* d[k] = v : an existing key keeps its position, a new key goes last
Put(d, k, v) ==
  IF Has(d, k)
    THEN [i \in 1..Len(d) |-> IF d[i][1] = k THEN <<k, v>> ELSE d[i]]
    ELSE Append(d, <<k, v>>)
\* d.update(u)
RECURSIVE Update(_, _)
Update(d, u) ==
  IF u = <<>> THEN d ELSE Update(Put(d, Head(u)[1], Head(u)[2]), Tail(u))
\* Python's dict equality: same keys, same values, whatever the order
DictEq(a, b) == Keys(a) = Keys(b) /\ \A k \in Keys(a) : Get(a, k) = Get(b, k)

\* --------------------------------------------------------------- JSON
\* json.load of a well-formed object text: members in order, last one wins
json_load(members) == Update(<<>>, members)
\* Mutant: the last member of the dict is not written
json_dump_drops_last(d) == SubSeq(d, 1, Len(d) - 1)

\* json.dump(credentials, f, indent=2): one member per key, in dict order
json_dump(d) == d

\* ------------------------------------------------------------ strings
startswith(s, prefix) ==
  Len(s) >= Len(prefix) /\ SubSeq(s, 1, Len(prefix)) = prefix
endswith(s, suffix) ==
  Len(s) >= Len(suffix) /\ SubSeq(s, Len(s) - Len(suffix) + 1, Len(s)) = suffix
HTTP_PREFIX == <<"h","t","t","p",":","/","/">>
HTTPS_PREFIX == <<"h","t","t","p","s",":","/","/">>
V1_SUFFIX == <<"/","v","1">>

\* ------------------------------------------------------ is_token_valid
\* Mutant: the 30 s buffer is forgotten
is_token_valid_no_buffer(credentials, time_ms) ==
  IF ~Has(credentials, "expiry_date")
    THEN FALSE
    ELSE time_ms < Get(credentials, "expiry_date")

is_token_valid(credentials, time_ms) ==
  IF ~Has(credentials, "expiry_date")
    THEN FALSE
    ELSE time_ms < Get(credentials, "expiry_date") - TOKEN_REFRESH_BUFFER_MS

\* ------------------------------------------------ refresh_access_token
\* Mutant: an empty refresh_token is taken for a usable one
missing_refresh_token_absent_only(credentials) ==
  ~Has(credentials, "refresh_token")

\* Lines 96-97: 'refresh_token' not in credentials or not credentials[...]
missing_refresh_token(credentials) ==
  \/ ~Has(credentials, "refresh_token")
  \/ Get(credentials, "refresh_token") = ""

\* Mutant: the access token is sent in the place of the refresh token
refresh_request_sends_access_token(credentials) ==
  [grant_type    |-> "refresh_token",
   refresh_token |-> IF Has(credentials, "access_token")
                       THEN Get(credentials, "access_token")
                       ELSE Get(credentials, "refresh_token"),
   client_id     |-> QWEN_OAUTH_CLIENT_ID]

\* Lines 100-104: the form data of the POST
refresh_request(credentials) ==
  [grant_type    |-> "refresh_token",
   refresh_token |-> Get(credentials, "refresh_token"),
   client_id     |-> QWEN_OAUTH_CLIENT_ID]

\* response.raise_for_status() raises HTTPError for a 4xx or 5xx status
raise_for_status(status) == 400 <= status /\ status < 600

\* Mutant: the new record is built from an empty dict, not from a copy of
\* the credentials, so the fields that are not refreshed are lost
new_credentials_no_copy(credentials, token_data, time_ms) ==
  Update(<<>>,
    << <<"access_token", Get(token_data, "access_token")>>,
       <<"token_type",
         IF Has(token_data, "token_type")
           THEN Get(token_data, "token_type") ELSE DEFAULT_TOKEN_TYPE>>,
       <<"refresh_token",
         IF Has(token_data, "refresh_token")
           THEN Get(token_data, "refresh_token")
           ELSE Get(credentials, "refresh_token")>>,
       <<"expiry_date", time_ms + Get(token_data, "expires_in") * 1000>> >>)

\* Mutant: expires_in is added to the clock as if it were milliseconds
new_credentials_seconds(credentials, token_data, time_ms) ==
  Update(credentials,
    << <<"access_token", Get(token_data, "access_token")>>,
       <<"token_type",
         IF Has(token_data, "token_type")
           THEN Get(token_data, "token_type") ELSE DEFAULT_TOKEN_TYPE>>,
       <<"refresh_token",
         IF Has(token_data, "refresh_token")
           THEN Get(token_data, "refresh_token")
           ELSE Get(credentials, "refresh_token")>>,
       <<"expiry_date", time_ms + Get(token_data, "expires_in")>> >>)

\* Lines 127-133: credentials.copy() updated with the token data.  Python
\* evaluates the dict literal top to bottom, so a missing access_token is
\* reported before a missing expires_in.
new_credentials(credentials, token_data, time_ms) ==
  Update(credentials,
    << <<"access_token", Get(token_data, "access_token")>>,
       <<"token_type",
         IF Has(token_data, "token_type")
           THEN Get(token_data, "token_type") ELSE DEFAULT_TOKEN_TYPE>>,
       <<"refresh_token",
         IF Has(token_data, "refresh_token")
           THEN Get(token_data, "refresh_token")
           ELSE Get(credentials, "refresh_token")>>,
       <<"expiry_date", time_ms + Get(token_data, "expires_in") * 1000>> >>)

\* Mutant: the input dict is updated in place instead of a copy of it
refresh_result_updates_in_place(credentials, response, debugger, time_ms) ==
  LET token_data == json_load(response.body) IN
  IF raise_for_status(response.status)
    THEN [err |-> "HTTPError", new |-> <<>>, old |-> credentials]
  ELSE IF debugger = "quit"
    THEN [err |-> "BdbQuit", new |-> <<>>, old |-> credentials]
  ELSE IF ~response.json
    THEN [err |-> "requests.JSONDecodeError", new |-> <<>>, old |-> credentials]
  ELSE IF Has(token_data, "error")
    THEN [err |-> "ValueError: Token refresh failed", new |-> <<>>, old |-> credentials]
  ELSE IF ~Has(token_data, "access_token")
    THEN [err |-> "KeyError: access_token", new |-> <<>>, old |-> credentials]
  ELSE IF ~Has(token_data, "expires_in")
    THEN [err |-> "KeyError: expires_in", new |-> <<>>, old |-> credentials]
  ELSE [err |-> "", new |-> new_credentials(credentials, token_data, time_ms),
        old |-> new_credentials(credentials, token_data, time_ms)]

\* Lines 116-135, once requests.post has returned a response.  debugger is
\* how the ipdb.set_trace() session of line 120 ends: "continue" resumes the
\* function, "quit" leaves it with BdbQuit.  Gives the exception raised
\* ("" for none), the dict returned (new) and the dict that was passed in
\* as it is after the call (old), which line 127's copy() leaves alone.
refresh_result(credentials, response, debugger, time_ms) ==
  LET token_data == json_load(response.body) IN
  IF raise_for_status(response.status)
    THEN [err |-> "HTTPError", new |-> <<>>, old |-> credentials]
  ELSE IF debugger = "quit"
    THEN [err |-> "BdbQuit", new |-> <<>>, old |-> credentials]
  ELSE IF ~response.json
    THEN [err |-> "requests.JSONDecodeError", new |-> <<>>, old |-> credentials]
  ELSE IF Has(token_data, "error")
    THEN [err |-> "ValueError: Token refresh failed", new |-> <<>>, old |-> credentials]
  ELSE IF ~Has(token_data, "access_token")
    THEN [err |-> "KeyError: access_token", new |-> <<>>, old |-> credentials]
  ELSE IF ~Has(token_data, "expires_in")
    THEN [err |-> "KeyError: expires_in", new |-> <<>>, old |-> credentials]
  ELSE [err |-> "", new |-> new_credentials(credentials, token_data, time_ms),
        old |-> credentials]

\* ---------------------------------------------- get_openapi_credentials
\* Mutant: the scheme is never added
base_url_of_no_scheme(credentials) ==
  LET url0 == IF Has(credentials, "resource_url")
                THEN Get(credentials, "resource_url")
                ELSE QWEN_DEFAULT_BASE_URL
  IN IF ~endswith(url0, V1_SUFFIX) THEN url0 \o V1_SUFFIX ELSE url0

\* Mutant: /v1 is appended without looking at the end of the URL
base_url_of_always_v1(credentials) ==
  LET url0 == IF Has(credentials, "resource_url")
                THEN Get(credentials, "resource_url")
                ELSE QWEN_DEFAULT_BASE_URL
      url1 == IF ~(startswith(url0, HTTP_PREFIX) \/ startswith(url0, HTTPS_PREFIX))
                THEN HTTPS_PREFIX \o url0 ELSE url0
  IN url1 \o V1_SUFFIX

\* Lines 182-186
base_url_of(credentials) ==
  LET url0 == IF Has(credentials, "resource_url")
                THEN Get(credentials, "resource_url")
                ELSE QWEN_DEFAULT_BASE_URL
      url1 == IF ~(startswith(url0, HTTP_PREFIX) \/ startswith(url0, HTTPS_PREFIX))
                THEN HTTPS_PREFIX \o url0 ELSE url0
  IN IF ~endswith(url1, V1_SUFFIX) THEN url1 \o V1_SUFFIX ELSE url1

\* Lines 188-192
descriptor(credentials) ==
  [api_key  |-> Get(credentials, "access_token"),
   base_url |-> base_url_of(credentials),
   model    |-> DEFAULT_MODEL]

\* ------------------------------------------- get_qwen_credential_path
\* Paths are sequences of one-character strings.
SLASH == <<"/">>
TILDE_SLASH == <<"~","/">>
QWEN_DIR == <<".","q","w","e","n">>
QWEN_CREDENTIAL_FILENAME ==
  <<"o","a","u","t","h","_","c","r","e","d","s",".","j","s","o","n">>
\* custom_path: Optional[str]
None == [given |-> FALSE, text |-> <<>>]
Str(text) == [given |-> TRUE, text |-> text]

\* os.path.join(a, b) of posixpath
join(a, b) ==
  IF startswith(b, SLASH) THEN b
  ELSE IF a = <<>> \/ endswith(a, SLASH) THEN a \o b
  ELSE a \o SLASH \o b

\* path.split('/')
RECURSIVE split(_)
split(path) ==
  IF \A i \in 1..Len(path) : path[i] # "/"
    THEN <<path>>
    ELSE LET i == CHOOSE j \in 1..Len(path) :
                    path[j] = "/" /\ \A k \in 1..(j - 1) : path[k] # "/"
         IN <<SubSeq(path, 1, i - 1)>> \o split(SubSeq(path, i + 1, Len(path)))

\* '/'.join(comps)
RECURSIVE slash_join(_)
slash_join(comps) ==
  IF comps = <<>> THEN <<>>
  ELSE IF Len(comps) = 1 THEN comps[1]
  ELSE comps[1] \o SLASH \o slash_join(Tail(comps))

\* The loop of posixpath.normpath over the components
RECURSIVE norm_comps(_, _, _)
norm_comps(comps, new_comps, initial_slashes) ==
  IF comps = <<>> THEN new_comps
  ELSE LET comp == Head(comps) IN
    IF comp = <<>> \/ comp = <<".">>
      THEN norm_comps(Tail(comps), new_comps, initial_slashes)
    ELSE IF \/ comp # <<".", ".">>
            \/ (initial_slashes = 0 /\ new_comps = <<>>)
            \/ (new_comps # <<>> /\ new_comps[Len(new_comps)] = <<".", ".">>)
      THEN norm_comps(Tail(comps), Append(new_comps, comp), initial_slashes)
    ELSE IF new_comps # <<>>
      THEN norm_comps(Tail(comps), SubSeq(new_comps, 1, Len(new_comps) - 1),
                      initial_slashes)
    ELSE norm_comps(Tail(comps), new_comps, initial_slashes)

\* posixpath.normpath
normpath(path) ==
  IF path = <<>> THEN <<".">>
  ELSE
    LET initial_slashes ==
          IF ~startswith(path, SLASH) THEN 0
          ELSE IF startswith(path, <<"/", "/">>) /\ ~startswith(path, <<"/", "/", "/">>)
            THEN 2
          ELSE 1
        body == slash_join(norm_comps(split(path), <<>>, initial_slashes))
        out == [i \in 1..initial_slashes |-> "/"] \o body
    IN IF out = <<>> THEN <<".">> ELSE out

\* os.path.abspath
abspath(path, dir) ==
  normpath(IF startswith(path, SLASH) THEN path ELSE join(dir, path))

\* Mutant: one character too few is cut from a ~/ path
get_qwen_credential_path_cut_one(custom, homedir, dir) ==
  IF custom.given /\ custom.text # <<>>
    THEN IF startswith(custom.text, TILDE_SLASH)
           THEN join(homedir, SubSeq(custom.text, 2, Len(custom.text)))
           ELSE abspath(custom.text, dir)
    ELSE join(join(homedir, QWEN_DIR), QWEN_CREDENTIAL_FILENAME)

\* Lines 35-41
get_qwen_credential_path(custom, homedir, dir) ==
  IF custom.given /\ custom.text # <<>>
    THEN IF startswith(custom.text, TILDE_SLASH)
           THEN join(homedir, SubSeq(custom.text, 3, Len(custom.text)))
           ELSE abspath(custom.text, dir)
    ELSE join(join(homedir, QWEN_DIR), QWEN_CREDENTIAL_FILENAME)

\* Path inputs
HOME_ROOT == <<"/","r","o","o","t">>
HOME_USER == <<"/","h","o","m","e","/","u">>
Homes == {HOME_ROOT, HOME_USER}
CWD_WORK == <<"/","w">>
Cwds == {CWD_WORK, SLASH}
PATH_ABS == <<"/","t","/","c",".","j","s","o","n">>
PATH_DOUBLE_SLASH == <<"/","t","/","/","c">>
PATH_DOTDOT == <<"/","t","/",".",".","/","c">>
PATH_TRAILING_SLASH == <<"/","t","/","c","/">>
PATH_HOME_FILE == <<"~","/","f","o","o",".","j","s","o","n">>
PATH_HOME_DIR == <<"~","/","t","e","s","t","/","c",".","j","s","o","n">>
PATH_HOME_SLASH == <<"~","/","/","e","t","c","/","c">>
PATH_RELATIVE == <<"d","/","c",".","j","s","o","n">>
PATH_DOT_RELATIVE == <<".","/","c">>
PATH_UP_RELATIVE == <<".",".","/","c">>
PATH_TILDE == <<"~">>
PATH_TWO_SLASHES == <<"/","/","t">>
CustomPaths ==
  {None, Str(<<>>)} \cup
  {Str(x) : x \in {PATH_ABS, PATH_DOUBLE_SLASH, PATH_DOTDOT, PATH_TRAILING_SLASH,
                   SLASH, PATH_HOME_FILE, PATH_HOME_DIR, PATH_HOME_SLASH,
                   TILDE_SLASH, PATH_RELATIVE, PATH_DOT_RELATIVE,
                   PATH_UP_RELATIVE, PATH_TILDE, PATH_TWO_SLASHES}}

\* ------------------------------------------------------- token endpoint
\* The provider of the rotation scenario: it accepts the refresh token the
\* login flow issued, and each refresh spends the token used and issues the
\* next one.
InitialProvider == [accepted |-> {"R0"}, issued |-> 0]
\* The tokens it issues, in order
RefreshTokenSeq == <<"R1", "R2", "R3", "R4", "R5", "R6", "R7", "R8">>
AccessTokenSeq == <<"A1", "A2", "A3", "A4", "A5", "A6", "A7", "A8">>
ProviderExpiresIn == 3600
provider_accepts(prov, request) == request.refresh_token \in prov.accepted
\* The body of its answer: new tokens, or the error it reports with a 200
provider_body(prov, request) ==
  IF provider_accepts(prov, request)
    THEN << <<"access_token", AccessTokenSeq[prov.issued + 1]>>,
            <<"token_type", "Bearer">>,
            <<"refresh_token", RefreshTokenSeq[prov.issued + 1]>>,
            <<"expires_in", ProviderExpiresIn>> >>
    ELSE << <<"error", "invalid_grant">> >>
provider_response(prov, request) ==
  [status |-> 200, json |-> TRUE, body |-> provider_body(prov, request)]
\* Its state after the request: the token used is spent, the new one accepted
provider_next(prov, request) ==
  IF provider_accepts(prov, request)
    THEN [accepted |-> {RefreshTokenSeq[prov.issued + 1]},
          issued |-> prov.issued + 1]
    ELSE prov

\* ------------------------------------------------------------- inputs
\* An optional member of a JSON object text: absent, or one of vals
Opt(k, vals) == {<<>>} \cup { << <<k, v>> >> : v \in vals }

URL_BARE == <<"e","x","a","m","p","l","e",".","c","o","m","/","c","o","m","p","a","t">>
URL_FULL == <<"h","t","t","p","s",":","/","/","x",".","i","o","/","v","1">>
URL_HTTP == <<"h","t","t","p",":","/","/","x",".","i","o">>
URL_V1 == <<"x",".","i","o","/","v","1">>
\* Does not end in /v1, but does once https:// is put before it
URL_ONLY_V1 == <<"v","1">>
ResourceUrls == {URL_BARE, URL_FULL, URL_HTTP, URL_V1, URL_ONLY_V1}

\* expiry_date values around the first clock value: long expired, inside
\* the 30 s buffer, on its edge, just outside it, and far in the future
ExpiryDates ==
  {Now0 - 60000, Now0 + 15000, Now0 + 30000, Now0 + 30001, Now0 + 360000}

\* The credential files the broker may find.  CoreTexts: any of the five
\* fields missing.  UrlTexts: every resource_url, in a record that is
\* valid throughout and in one that is expired.
CoreTexts ==
  { a \o r \o t \o e \o u :
      a \in Opt("access_token", {"A0"}),
      r \in Opt("refresh_token", {"", "R0"}),
      t \in Opt("token_type", {"MAC"}),
      e \in Opt("expiry_date", ExpiryDates),
      u \in Opt("resource_url", {URL_BARE}) }
UrlTexts ==
  { << <<"access_token", "A0">>, <<"refresh_token", "R0">>, <<"expiry_date", e>> >> \o u :
      e \in {Now0 - 60000, Now0 + 360000},
      u \in Opt("resource_url", ResourceUrls) }
CredentialTexts == CoreTexts \cup UrlTexts

\* A text that repeats a key: json.load keeps the last value
RepeatedKeyText ==
  << <<"access_token", "A0">>, <<"refresh_token", "R0">>,
     <<"expiry_date", Now0 + 360000>>, <<"expiry_date", Now0 - 60000>> >>

File(members) == [exists |-> TRUE, wellformed |-> TRUE, members |-> members]
NoFile == [exists |-> FALSE, wellformed |-> FALSE, members |-> <<>>]
\* A file open(path, 'w') has truncated and nothing has been written to
EmptyFile == [exists |-> TRUE, wellformed |-> FALSE, members |-> <<>>]

InitialFiles ==
  {NoFile, EmptyFile, File(RepeatedKeyText)} \cup {File(m) : m \in CredentialTexts}

\* Token endpoint responses.  A success body is any JSON object over the
\* fields {access_token, token_type?, refresh_token?, expires_in}, any of
\* them missing; expires_in is a lifetime in seconds.  A failure body has
\* an error field, alone or beside the success fields.  Either kind of
\* body may come with any status, and a 200 may carry a body that is not
\* JSON.
ExpiresIn == {30, 31, 3600}
SuccessBodies ==
  { a \o t \o r \o x :
      a \in Opt("access_token", {"A1"}),
      t \in Opt("token_type", {"bearer"}),
      r \in Opt("refresh_token", {"R1"}),
      x \in Opt("expires_in", ExpiresIn) }
FullBody ==
  << <<"access_token", "A1">>, <<"refresh_token", "R1">>, <<"expires_in", 3600>> >>
ErrorBody == << <<"error", "invalid_grant">> >>
Bodies == SuccessBodies \cup {ErrorBody, ErrorBody \o FullBody}
Statuses == {200, 304, 401, 500}
Responses ==
  {[status |-> 200, json |-> TRUE, body |-> b] : b \in Bodies}
  \cup {[status |-> 200, json |-> FALSE, body |-> <<>>]}
  \cup {[status |-> st, json |-> TRUE, body |-> b] :
          st \in Statuses \ {200}, b \in {FullBody, ErrorBody}}
NoResponse == [status |-> 0, json |-> FALSE, body |-> <<>>]
NoRequest == [grant_type |-> "", refresh_token |-> "", client_id |-> ""]
NoResult == [api_key |-> "", base_url |-> <<>>, model |-> ""]

\* -------------------------------------------------------------- state
Procs == {"p1", "p2"}

VARIABLES
  now,      \* the clock, in ms
  disk,     \* the credential file
  disk0,    \* the credential file as each call found it
  pc,       \* where each caller is in get_openapi_credentials
  calls,    \* calls each caller has started
  cred,     \* the local variable credentials
  loaded,   \* what load_qwen_credentials returned in this call
  valid,    \* what is_token_valid returned in this call
  req,      \* the form data posted to the token endpoint in this call
  resp,     \* the response requests.post returned in this call
  err,      \* the exception the call ended with
  result,   \* the descriptor the call returned
  sent,     \* requests posted in this call
  writes,   \* times the credential file was opened for writing in this call
  tcall,    \* clock when the call loaded and checked the record
  trefresh, \* clock when refresh_access_token computed expiry_date
  provider, \* the token endpoint: the refresh tokens it accepts
  custom_path,      \* the argument of get_qwen_credential_path
  home,             \* what os.path.expanduser("~") returns
  cwd,              \* what os.getcwd() returns
  credential_path   \* what get_qwen_credential_path returned

pathvars == <<custom_path, home, cwd, credential_path>>
vars == <<now, disk, disk0, pc, calls, cred, loaded, valid, req, resp, err, result,
          sent, writes, tcall, trefresh, provider, pathvars>>
locals == <<disk0, cred, loaded, valid, req, resp, err, result, sent, writes,
            tcall, trefresh>>

Fresh(idle, files) ==
  /\ now = Now0
  /\ disk \in files
  /\ pc = [p \in Procs |-> IF p \in idle THEN "idle" ELSE "off"]
  /\ calls = [p \in Procs |-> 0]
  /\ disk0 = [p \in Procs |-> NoFile]
  /\ cred = [p \in Procs |-> <<>>]
  /\ loaded = [p \in Procs |-> <<>>]
  /\ valid = [p \in Procs |-> FALSE]
  /\ req = [p \in Procs |-> NoRequest]
  /\ resp = [p \in Procs |-> NoResponse]
  /\ err = [p \in Procs |-> ""]
  /\ result = [p \in Procs |-> NoResult]
  /\ sent = [p \in Procs |-> 0]
  /\ writes = [p \in Procs |-> 0]
  /\ tcall = [p \in Procs |-> 0]
  /\ trefresh = [p \in Procs |-> 0]
  /\ provider = InitialProvider

\* The default credential path in one environment, already resolved
DefaultPath ==
  /\ custom_path = None
  /\ home = HOME_ROOT
  /\ cwd = CWD_WORK
  /\ credential_path = Str(get_qwen_credential_path(None, HOME_ROOT, CWD_WORK))

\* One caller: the single-threaded use the script is written for
Init == Fresh({"p1"}, InitialFiles) /\ DefaultPath

\* get_qwen_credential_path on its own: any argument, home and directory
InitPath ==
  /\ Fresh({}, {NoFile})
  /\ custom_path \in CustomPaths
  /\ home \in Homes
  /\ cwd \in Cwds
  /\ credential_path = None

Fail(p, e) ==
  /\ pc' = [pc EXCEPT ![p] = "failed"]
  /\ err' = [err EXCEPT ![p] = e]

\* Mutant: the validity check is skipped and every call refreshes
Load_always_refresh(p) ==
  /\ pc[p] = "idle"
  /\ calls[p] < MaxCalls
  /\ calls' = [calls EXCEPT ![p] = @ + 1]
  /\ tcall' = [tcall EXCEPT ![p] = now]
  /\ disk0' = [disk0 EXCEPT ![p] = disk]
  /\ IF ~disk.exists
       THEN /\ Fail(p, "FileNotFoundError")
            /\ UNCHANGED <<cred, loaded, valid>>
     ELSE IF ~disk.wellformed
       THEN /\ Fail(p, "JSONDecodeError")
            /\ UNCHANGED <<cred, loaded, valid>>
     ELSE LET c == json_load(disk.members) IN
            /\ cred' = [cred EXCEPT ![p] = c]
            /\ loaded' = [loaded EXCEPT ![p] = c]
            /\ valid' = [valid EXCEPT ![p] = is_token_valid(c, now)]
            /\ pc' = [pc EXCEPT ![p] = "refresh"]
            /\ UNCHANGED err
  /\ UNCHANGED <<provider, pathvars, now, disk, req, resp, result, sent, writes, trefresh>>

\* Lines 173-176: load_qwen_credentials, then is_token_valid
Load(p) ==
  /\ pc[p] = "idle"
  /\ calls[p] < MaxCalls
  /\ calls' = [calls EXCEPT ![p] = @ + 1]
  /\ tcall' = [tcall EXCEPT ![p] = now]
  /\ disk0' = [disk0 EXCEPT ![p] = disk]
  /\ IF ~disk.exists
       THEN /\ Fail(p, "FileNotFoundError")
            /\ UNCHANGED <<cred, loaded, valid>>
     ELSE IF ~disk.wellformed
       THEN /\ Fail(p, "JSONDecodeError")
            /\ UNCHANGED <<cred, loaded, valid>>
     ELSE LET c == json_load(disk.members) IN
            /\ cred' = [cred EXCEPT ![p] = c]
            /\ loaded' = [loaded EXCEPT ![p] = c]
            /\ valid' = [valid EXCEPT ![p] = is_token_valid(c, now)]
            /\ pc' = [pc EXCEPT ![p] =
                        IF is_token_valid(c, now) THEN "derive" ELSE "refresh"]
            /\ UNCHANGED err
  /\ UNCHANGED <<provider, pathvars, now, disk, req, resp, result, sent, writes, trefresh>>

\* Lines 96-114: the refresh token check and the POST
RefreshSend(p) ==
  /\ pc[p] = "refresh"
  /\ IF missing_refresh_token(cred[p])
       THEN /\ Fail(p, "ValueError: No refresh token available in credentials.")
            /\ UNCHANGED <<req, sent>>
       ELSE /\ req' = [req EXCEPT ![p] = refresh_request(cred[p])]
            /\ sent' = [sent EXCEPT ![p] = @ + 1]
            /\ pc' = [pc EXCEPT ![p] = "await"]
            /\ UNCHANGED err
  /\ UNCHANGED <<provider, pathvars, now, disk, disk0, calls, cred, loaded, valid, resp, result, writes,
                 tcall, trefresh>>

\* Mutant: the file is opened for writing before the response is examined,
\* so a failed refresh leaves it truncated
RefreshReceive_opens_file_first(p) ==
  /\ pc[p] = "await"
  /\ \/ /\ Fail(p, "ConnectionError")
        /\ UNCHANGED <<disk, cred, loaded, resp, trefresh>>
     \/ \E r \in Responses, debugger \in {"continue", "quit"} :
          LET out == refresh_result(cred[p], r, debugger, now) IN
            /\ resp' = [resp EXCEPT ![p] = r]
            /\ loaded' = [loaded EXCEPT ![p] = out.old]
            /\ disk' = EmptyFile
            /\ IF out.err # ""
                 THEN /\ Fail(p, out.err)
                      /\ UNCHANGED <<cred, trefresh>>
                 ELSE /\ cred' = [cred EXCEPT ![p] = out.new]
                      /\ trefresh' = [trefresh EXCEPT ![p] = now]
                      /\ pc' = [pc EXCEPT ![p] = "save"]
                      /\ UNCHANGED err
  /\ UNCHANGED <<provider, pathvars, now, disk0, calls, valid, req, result, sent, writes,
                 tcall>>

\* Mutant: the refreshed record is used but never saved
RefreshReceive_no_save(p) ==
  /\ pc[p] = "await"
  /\ \/ /\ Fail(p, "ConnectionError")
        /\ UNCHANGED <<cred, loaded, resp, trefresh>>
     \/ \E r \in Responses, debugger \in {"continue", "quit"} :
          LET out == refresh_result(cred[p], r, debugger, now) IN
            /\ resp' = [resp EXCEPT ![p] = r]
            /\ loaded' = [loaded EXCEPT ![p] = out.old]
            /\ IF out.err # ""
                 THEN /\ Fail(p, out.err)
                      /\ UNCHANGED <<cred, trefresh>>
                 ELSE /\ cred' = [cred EXCEPT ![p] = out.new]
                      /\ trefresh' = [trefresh EXCEPT ![p] = now]
                      /\ pc' = [pc EXCEPT ![p] = "derive"]
                      /\ UNCHANGED err
  /\ UNCHANGED <<provider, pathvars, now, disk, disk0, calls, valid, req, result, sent,
                 writes, tcall>>

\* Mutant: a network failure is retried instead of raised
RefreshReceive_retry(p) ==
  /\ pc[p] = "await"
  /\ \/ /\ pc' = [pc EXCEPT ![p] = "refresh"]
        /\ UNCHANGED <<err, cred, loaded, resp, trefresh>>
     \/ \E r \in Responses, debugger \in {"continue", "quit"} :
          LET out == refresh_result(cred[p], r, debugger, now) IN
            /\ resp' = [resp EXCEPT ![p] = r]
            /\ loaded' = [loaded EXCEPT ![p] = out.old]
            /\ IF out.err # ""
                 THEN /\ Fail(p, out.err)
                      /\ UNCHANGED <<cred, trefresh>>
                 ELSE /\ cred' = [cred EXCEPT ![p] = out.new]
                      /\ trefresh' = [trefresh EXCEPT ![p] = now]
                      /\ pc' = [pc EXCEPT ![p] = "save"]
                      /\ UNCHANGED err
  /\ UNCHANGED <<provider, pathvars, now, disk, disk0, calls, valid, req, result, sent, writes,
                 tcall>>

\* Lines 116-135: what refresh_access_token does with the response r
HandleResponse(p, r, debugger) ==
  LET out == refresh_result(cred[p], r, debugger, now) IN
    /\ resp' = [resp EXCEPT ![p] = r]
    /\ loaded' = [loaded EXCEPT ![p] = out.old]
    /\ IF out.err # ""
         THEN /\ Fail(p, out.err)
              /\ UNCHANGED <<cred, trefresh>>
         ELSE /\ cred' = [cred EXCEPT ![p] = out.new]
              /\ trefresh' = [trefresh EXCEPT ![p] = now]
              /\ pc' = [pc EXCEPT ![p] = "save"]
              /\ UNCHANGED err

\* Lines 107-135: requests.post raises (no response), or returns a response
\* that refresh_access_token turns into new credentials or an exception
RefreshReceive(p) ==
  /\ pc[p] = "await"
  /\ \/ /\ Fail(p, "ConnectionError")
        /\ UNCHANGED <<cred, loaded, resp, trefresh>>
     \/ \E r \in Responses, debugger \in {"continue", "quit"} :
          HandleResponse(p, r, debugger)
  /\ UNCHANGED <<provider, pathvars, now, disk, disk0, calls, valid, req, result, sent, writes,
                 tcall>>

\* Lines 146-151: makedirs and open(path, 'w'), which truncates the file
SaveOpen(p) ==
  /\ pc[p] = "save"
  /\ \/ /\ Fail(p, "OSError")
        /\ UNCHANGED <<disk, writes>>
     \/ /\ disk' = EmptyFile
        /\ writes' = [writes EXCEPT ![p] = @ + 1]
        /\ pc' = [pc EXCEPT ![p] = "write"]
        /\ UNCHANGED err
  /\ UNCHANGED <<provider, pathvars, now, disk0, calls, cred, loaded, valid, req, resp, result, sent,
                 tcall, trefresh>>

\* Mutant: the record as loaded is written, not the refreshed one
SaveWrite_loaded_record(p) ==
  /\ pc[p] = "write"
  /\ \/ /\ Fail(p, "OSError")
        /\ UNCHANGED disk
     \/ /\ disk' = File(json_dump(loaded[p]))
        /\ pc' = [pc EXCEPT ![p] = "derive"]
        /\ UNCHANGED err
  /\ UNCHANGED <<provider, pathvars, now, disk0, calls, cred, loaded, valid, req, resp, result, sent,
                 writes, tcall, trefresh>>

\* Line 152 and the close of the file: the text reaches the file, or the
\* write fails and the file stays as open left it
SaveWrite(p) ==
  /\ pc[p] = "write"
  /\ \/ /\ Fail(p, "OSError")
        /\ UNCHANGED disk
     \/ /\ disk' = File(json_dump(cred[p]))
        /\ pc' = [pc EXCEPT ![p] = "derive"]
        /\ UNCHANGED err
  /\ UNCHANGED <<provider, pathvars, now, disk0, calls, cred, loaded, valid, req, resp, result, sent,
                 writes, tcall, trefresh>>

\* Mutant: the refreshed record is not assigned back, and the descriptor is
\* made from the record as loaded
Derive_from_loaded(p) ==
  /\ pc[p] = "derive"
  /\ IF ~Has(loaded[p], "access_token")
       THEN /\ Fail(p, "KeyError: access_token")
            /\ UNCHANGED result
       ELSE /\ result' = [result EXCEPT ![p] = descriptor(loaded[p])]
            /\ pc' = [pc EXCEPT ![p] = "returned"]
            /\ UNCHANGED err
  /\ UNCHANGED <<provider, pathvars, now, disk, disk0, calls, cred, loaded, valid, req, resp, sent,
                 writes, tcall, trefresh>>

\* Lines 181-192: the base URL and the descriptor
Derive(p) ==
  /\ pc[p] = "derive"
  /\ IF ~Has(cred[p], "access_token")
       THEN /\ Fail(p, "KeyError: access_token")
            /\ UNCHANGED result
       ELSE /\ result' = [result EXCEPT ![p] = descriptor(cred[p])]
            /\ pc' = [pc EXCEPT ![p] = "returned"]
            /\ UNCHANGED err
  /\ UNCHANGED <<provider, pathvars, now, disk, disk0, calls, cred, loaded, valid, req, resp, sent,
                 writes, tcall, trefresh>>

\* The call is over; the caller may call again
Finish(p) ==
  /\ pc[p] \in {"returned", "failed"}
  /\ pc' = [pc EXCEPT ![p] = "idle"]
  /\ disk0' = [disk0 EXCEPT ![p] = NoFile]
  /\ cred' = [cred EXCEPT ![p] = <<>>]
  /\ loaded' = [loaded EXCEPT ![p] = <<>>]
  /\ valid' = [valid EXCEPT ![p] = FALSE]
  /\ req' = [req EXCEPT ![p] = NoRequest]
  /\ resp' = [resp EXCEPT ![p] = NoResponse]
  /\ err' = [err EXCEPT ![p] = ""]
  /\ result' = [result EXCEPT ![p] = NoResult]
  /\ sent' = [sent EXCEPT ![p] = 0]
  /\ writes' = [writes EXCEPT ![p] = 0]
  /\ tcall' = [tcall EXCEPT ![p] = 0]
  /\ trefresh' = [trefresh EXCEPT ![p] = 0]
  /\ UNCHANGED <<provider, pathvars, now, disk, calls>>

\* Time passes
Tick ==
  /\ now < Now0 + MaxTicks * TickMs
  /\ now' = now + TickMs
  /\ UNCHANGED <<provider, pathvars, disk, pc, calls, locals>>

Next ==
  \/ \E p \in Procs : Load(p)
  \/ \E p \in Procs : RefreshSend(p)
  \/ \E p \in Procs : RefreshReceive(p)
  \/ \E p \in Procs : SaveOpen(p)
  \/ \E p \in Procs : SaveWrite(p)
  \/ \E p \in Procs : Derive(p)
  \/ \E p \in Procs : Finish(p)
  \/ Tick

Spec == Init /\ [][Next]_vars

\* ---- two callers, one credential file, the rotating token endpoint
STALE_RECORD ==
  << <<"access_token", "A0">>, <<"refresh_token", "R0">>,
     <<"expiry_date", Now0 - 60000>>, <<"resource_url", URL_BARE>> >>
VALID_RECORD ==
  << <<"access_token", "A0">>, <<"refresh_token", "R0">>,
     <<"expiry_date", Now0 + 360000>>, <<"resource_url", URL_BARE>> >>
ConcFiles == {File(STALE_RECORD), File(VALID_RECORD)}

InitConc == Fresh(Procs, ConcFiles) /\ DefaultPath

\* Lines 107-135 against the rotating endpoint: the request or its answer
\* is lost (requests.post raises), or the answer of the endpoint arrives
ProviderReceive(p) ==
  /\ pc[p] = "await"
  /\ provider.issued < Len(RefreshTokenSeq)
  /\ \/ /\ Fail(p, "ConnectionError")
        /\ provider' \in {provider, provider_next(provider, req[p])}
        /\ UNCHANGED <<cred, loaded, resp, trefresh>>
     \/ /\ provider' = provider_next(provider, req[p])
        /\ \E debugger \in {"continue", "quit"} :
             HandleResponse(p, provider_response(provider, req[p]), debugger)
  /\ UNCHANGED <<pathvars, now, disk, disk0, calls, valid, req, result, sent, writes,
                 tcall>>

NextConc ==
  \/ \E p \in Procs : Load(p)
  \/ \E p \in Procs : RefreshSend(p)
  \/ \E p \in Procs : ProviderReceive(p)
  \/ \E p \in Procs : SaveOpen(p)
  \/ \E p \in Procs : SaveWrite(p)
  \/ \E p \in Procs : Derive(p)
  \/ \E p \in Procs : Finish(p)
  \/ Tick

SpecConc == InitConc /\ [][NextConc]_vars

\* ---- one caller, call after call, against the rotating token endpoint
InitSeq == Fresh({"p1"}, ConcFiles) /\ DefaultPath

SpecSeq == InitSeq /\ [][NextConc]_vars

\* ---- load, save what was loaded, load again
\* Lines 44-61: load_qwen_credentials on its own
LoadOnly(p) ==
  /\ pc[p] = "idle"
  /\ disk0' = [disk0 EXCEPT ![p] = disk]
  /\ IF ~disk.exists
       THEN /\ Fail(p, "FileNotFoundError")
            /\ UNCHANGED <<cred, loaded>>
     ELSE IF ~disk.wellformed
       THEN /\ Fail(p, "JSONDecodeError")
            /\ UNCHANGED <<cred, loaded>>
     ELSE /\ cred' = [cred EXCEPT ![p] = json_load(disk.members)]
          /\ loaded' = [loaded EXCEPT ![p] = json_load(disk.members)]
          /\ pc' = [pc EXCEPT ![p] = "save"]
          /\ UNCHANGED err
  /\ UNCHANGED <<provider, pathvars, now, disk, calls, valid, req, resp, result, sent,
                 writes, tcall, trefresh>>

\* Lines 44-61 again, once save_qwen_credentials has returned
Reload(p) ==
  /\ pc[p] = "derive"
  /\ IF ~disk.exists
       THEN /\ Fail(p, "FileNotFoundError")
            /\ UNCHANGED cred
     ELSE IF ~disk.wellformed
       THEN /\ Fail(p, "JSONDecodeError")
            /\ UNCHANGED cred
     ELSE /\ cred' = [cred EXCEPT ![p] = json_load(disk.members)]
          /\ pc' = [pc EXCEPT ![p] = "reloaded"]
          /\ UNCHANGED err
  /\ UNCHANGED <<provider, pathvars, now, disk, disk0, calls, loaded, valid, req, resp,
                 result, sent, writes, tcall, trefresh>>

NextRoundTrip ==
  \/ \E p \in Procs : LoadOnly(p)
  \/ \E p \in Procs : SaveOpen(p)
  \/ \E p \in Procs : SaveWrite(p)
  \/ \E p \in Procs : Reload(p)

SpecRoundTrip == Init /\ [][NextRoundTrip]_vars

\* get_qwen_credential_path(custom_path), lines 35-41
ResolvePath ==
  /\ credential_path = None
  /\ credential_path' = Str(get_qwen_credential_path(custom_path, home, cwd))
  /\ UNCHANGED <<custom_path, home, cwd, provider, now, disk, pc, calls, locals>>

NextPath == ResolvePath

SpecPath == InitPath /\ [][NextPath]_vars

\* ============================================================ claims
\* The exceptions load_qwen_credentials raises
LoadErrors == {"FileNotFoundError", "JSONDecodeError"}
\* The call of p has loaded a record and run is_token_valid on it
Checked(p) ==
  /\ pc[p] \notin {"off", "idle"}
  /\ ~(pc[p] = "failed" /\ err[p] \in LoadErrors)
\* The call of p has entered refresh_access_token and left its first check
InRefresh(p) == Checked(p) /\ ~valid[p] /\ pc[p] # "refresh"
\* The call of p ended with an exception raised inside refresh_access_token
FailedInRefresh(p) == InRefresh(p) /\ pc[p] = "failed" /\ err[p] # "OSError"
\* refresh_access_token returned a record in the call of p
Refreshed(p) ==
  InRefresh(p) /\ pc[p] \in {"save", "write", "derive", "returned"}
\* The record stored in the credential file
OnDisk == json_load(disk.members)

\* C1: is_valid is false when expiry_date is absent and otherwise true
\* exactly when now_ms < expiry_date - 30000; a token that expires 15 s
\* after the check is reported invalid.
C1_IsValidExact ==
  \A p \in Procs : Checked(p) =>
    /\ valid[p] = IF Has(loaded[p], "expiry_date")
                    THEN tcall[p] < Get(loaded[p], "expiry_date") - 30000
                    ELSE FALSE
    /\ (Has(loaded[p], "expiry_date")
          /\ Get(loaded[p], "expiry_date") = tcall[p] + 15000) => ~valid[p]
C1_Witness ==
  \E p \in Procs :
    /\ Checked(p)
    /\ Has(loaded[p], "expiry_date")
    /\ Get(loaded[p], "expiry_date") = tcall[p] + 15000
    /\ ~valid[p]

\* C2: when get_credentials fails during refresh (missing refresh token,
\* failure status, error field, network failure, or any other exception of
\* refresh), no save step has run and the credential file is exactly as the
\* call found it, holding the record that was loaded.
C2_FailedRefreshLeavesFile ==
  \A p \in Procs : FailedInRefresh(p) =>
    /\ writes[p] = 0
    /\ disk = disk0[p]
    /\ disk.exists /\ disk.wellformed
    /\ OnDisk = loaded[p]
C2_Witness ==
  \E p \in Procs :
    /\ FailedInRefresh(p)
    /\ err[p] = "ValueError: Token refresh failed"
    /\ sent[p] = 1

\* C3: a call on a stale record whose refresh succeeded returns only after
\* the file holds the refreshed record: the access_token of the response
\* and an expiry_date later than the time of the call.
C3_ReturnAfterRefreshPersisted ==
  \A p \in Procs : (pc[p] = "returned" /\ ~valid[p]) =>
    /\ disk.exists /\ disk.wellformed
    /\ DictEq(OnDisk, cred[p])
    /\ Get(OnDisk, "access_token") = Get(json_load(resp[p].body), "access_token")
    /\ Get(OnDisk, "expiry_date") > tcall[p]
C3_Witness ==
  \E p \in Procs :
    /\ pc[p] = "returned"
    /\ ~valid[p]
    /\ Has(loaded[p], "expiry_date")
    /\ Get(loaded[p], "expiry_date") < tcall[p]
    /\ resp[p].status = 200

\* C4: a call that loads a valid record sends no request to the token
\* endpoint and does not write the credential file, which stays as found.
C4_ValidRecordNoRefresh ==
  \A p \in Procs : (Checked(p) /\ valid[p]) =>
    /\ pc[p] \in {"derive", "returned", "failed"}
    /\ sent[p] = 0
    /\ req[p] = NoRequest
    /\ resp[p] = NoResponse
    /\ writes[p] = 0
    /\ disk = disk0[p]
C4_Witness ==
  \E p \in Procs : pc[p] = "returned" /\ valid[p] /\ calls[p] = 2

\* C5: refresh on a record whose refresh_token is absent or empty fails
\* with the missing-refresh-token error and sends no request.
C5_MissingRefreshToken ==
  \A p \in Procs :
    (InRefresh(p) /\ (Has(loaded[p], "refresh_token")
                        => Get(loaded[p], "refresh_token") = "")) =>
      /\ pc[p] = "failed"
      /\ err[p] = "ValueError: No refresh token available in credentials."
      /\ sent[p] = 0
      /\ req[p] = NoRequest
      /\ resp[p] = NoResponse
C5_Witness ==
  \E p \in Procs :
    /\ InRefresh(p)
    /\ Has(loaded[p], "refresh_token")
    /\ Get(loaded[p], "refresh_token") = ""
    /\ pc[p] = "failed"

\* The fields refresh_access_token overwrites
RefreshedFields == {"access_token", "token_type", "refresh_token", "expiry_date"}

Begins(s, prefix) ==
  /\ Len(s) >= Len(prefix)
  /\ \A i \in 1..Len(prefix) : s[i] = prefix[i]
Ends(s, suffix) ==
  /\ Len(s) >= Len(suffix)
  /\ \A i \in 1..Len(suffix) : s[Len(s) - Len(suffix) + i] = suffix[i]

\* C7: every returned descriptor has a base_url that starts with http://
\* or https:// and ends with /v1, whatever resource_url is.
C7_BaseUrlShape ==
  \A p \in Procs : pc[p] = "returned" =>
    /\ \/ Begins(result[p].base_url, <<"h","t","t","p",":","/","/">>)
       \/ Begins(result[p].base_url, <<"h","t","t","p","s",":","/","/">>)
    /\ Ends(result[p].base_url, <<"/","v","1">>)
C7_Witness ==
  \E p \in Procs :
    /\ pc[p] = "returned"
    /\ Has(cred[p], "resource_url")
    /\ Get(cred[p], "resource_url") = URL_BARE
    /\ ~valid[p]

\* C8: base_url is the default when resource_url is absent; otherwise it is
\* resource_url with https:// put before it exactly when it has no http://
\* or https:// scheme, and with /v1 put after it only when it does not end
\* in /v1 (and nothing is put after it only when the URL already ends in
\* /v1): example.com/compat gives https://example.com/compat/v1, and a
\* value ending in /v1 gets no second /v1.
C8_BaseUrlDerivation ==
  \A p \in Procs : pc[p] = "returned" =>
    LET b == result[p].base_url
        u == IF Has(cred[p], "resource_url")
               THEN Get(cred[p], "resource_url")
               ELSE <<"h","t","t","p","s",":","/","/","d","a","s","h","s","c",
                      "o","p","e",".","a","l","i","y","u","n","c","s",".","c",
                      "o","m","/","c","o","m","p","a","t","i","b","l","e","-",
                      "m","o","d","e","/","v","1">>
        scheme == Begins(u, HTTP_PREFIX) \/ Begins(u, HTTPS_PREFIX)
    IN /\ ~Has(cred[p], "resource_url") => b = u
       /\ \E pre \in {<<>>, HTTPS_PREFIX}, suf \in {<<>>, V1_SUFFIX} :
            /\ b = pre \o u \o suf
            /\ (pre = HTTPS_PREFIX) <=> ~scheme
            /\ (suf = V1_SUFFIX) => ~Ends(u, V1_SUFFIX)
            /\ (suf = <<>>) => Ends(pre \o u, V1_SUFFIX)
       /\ u = URL_BARE =>
            b = <<"h","t","t","p","s",":","/","/","e","x","a","m","p","l","e",
                  ".","c","o","m","/","c","o","m","p","a","t","/","v","1">>
       /\ Ends(u, V1_SUFFIX) => ~Ends(b, V1_SUFFIX \o V1_SUFFIX)
C8_Witness ==
  \E p \in Procs :
    /\ pc[p] = "returned"
    /\ Has(cred[p], "resource_url")
    /\ Get(cred[p], "resource_url") = URL_FULL
    /\ result[p].base_url = URL_FULL

\* C9: every returned descriptor has model qwen3-coder-plus and api_key
\* equal to the access_token of the current record: the loaded one when it
\* was valid, the one the token endpoint issued when a refresh was done.
C9_ApiKeyAndModel ==
  \A p \in Procs : pc[p] = "returned" =>
    /\ result[p].model = "qwen3-coder-plus"
    /\ result[p].api_key = Get(cred[p], "access_token")
    /\ valid[p] => result[p].api_key = Get(loaded[p], "access_token")
    /\ ~valid[p] =>
         result[p].api_key = Get(json_load(resp[p].body), "access_token")
C9_Witness ==
  \E p \in Procs :
    /\ pc[p] = "returned"
    /\ ~valid[p]
    /\ Has(loaded[p], "access_token")
    /\ Get(loaded[p], "access_token") # result[p].api_key

\* C10: once the token endpoint has answered, a non-2xx status makes
\* refresh fail with the token endpoint error (HTTPError), a 2xx status with
\* an error field in the body makes it fail with the refresh-rejected error
\* (ValueError "Token refresh failed"), and no record is returned in either
\* case.
C10_FailureClassification ==
  \A p \in Procs : resp[p] # NoResponse =>
    /\ resp[p].status \notin 200..299 =>
         pc[p] = "failed" /\ err[p] = "HTTPError"
    /\ (resp[p].status \in 200..299 /\ resp[p].json
          /\ Has(json_load(resp[p].body), "error")) =>
         pc[p] = "failed" /\ err[p] = "ValueError: Token refresh failed"

\* C11: a call posts at most one request to the token endpoint, and a call
\* in which load or refresh raised has ended with that exception: it has no
\* descriptor, has not opened the file for writing and has left it as found
\* (and a call in which load raised has posted nothing).
C11_NoRetryFailureAborts ==
  \A p \in Procs :
    /\ sent[p] <= 1
    /\ (pc[p] = "failed" /\ (err[p] \in LoadErrors \/ FailedInRefresh(p))) =>
         /\ result[p] = NoResult
         /\ writes[p] = 0
         /\ disk = disk0[p]
         /\ err[p] \in LoadErrors => (sent[p] = 0 /\ req[p] = NoRequest)
C11_Witness ==
  \E p \in Procs :
    /\ pc[p] = "failed"
    /\ err[p] = "ConnectionError"
    /\ sent[p] = 1
    /\ calls[p] = 2

\* The record in the file the call of p found when it loaded
FoundOnDisk(p) == json_load(disk0[p].members)

\* ---- C12
\* Another caller is inside save_qwen_credentials
OtherInSave(p) == \E q \in Procs \ {p} : pc[q] \in {"save", "write"}

\* C12: a load that runs while another caller is inside save finds a
\* complete record in the file, never an empty or truncated file.
C12_LoadSeesCompleteRecord ==
  [][\A p \in Procs :
       (pc[p] = "idle" /\ pc'[p] # "idle" /\ OtherInSave(p)) =>
         (disk0'[p].exists /\ disk0'[p].wellformed)]_vars

\* ---- C13
\* p and q sent, in overlapping calls, the refresh token of the same record
SameTokenRace(p, q) ==
  /\ p # q
  /\ sent[p] = 1 /\ sent[q] = 1
  /\ disk0[p] = disk0[q]
  /\ req[p].refresh_token = req[q].refresh_token

\* C13: two concurrent callers may both load the same stale record and both
\* send the same refresh token; once one of them got new tokens, the answer
\* to the other is a rejection and that caller fails with the rejection
\* error.
C13_SecondRequestRejected ==
  \A p, q \in Procs :
    (SameTokenRace(p, q) /\ Refreshed(q) /\ resp[p] # NoResponse) =>
      /\ pc[p] = "failed"
      /\ err[p] = "ValueError: Token refresh failed"

Resolved == credential_path # None
\* No custom path: None, or the empty string, which `if custom_path:` rejects
NoCustomPath == ~custom_path.given \/ custom_path.text = <<>>
HomeRelative == ~NoCustomPath /\ startswith(custom_path.text, TILDE_SLASH)
Absolute == ~NoCustomPath /\ startswith(custom_path.text, SLASH)
\* What follows the ~/ of a home-relative custom path
Remainder == SubSeq(custom_path.text, 3, Len(custom_path.text))
\* An absolute path nothing can be simplified in: no empty, "." or ".."
\* component and no trailing slash; POSIX keeps exactly two leading slashes
IsNormalAbsolute(path) ==
  /\ startswith(path, SLASH)
  /\ LET lead == IF startswith(path, <<"/", "/">>) /\ ~startswith(path, <<"/", "/", "/">>)
                   THEN 2 ELSE 1
         rest == SubSeq(path, lead + 1, Len(path))
     IN rest = <<>> \/
        \A i \in 1..Len(split(rest)) :
          split(rest)[i] \notin {<<>>, <<".">>, <<".", ".">>}
DefaultAndHomeRelative ==
  /\ NoCustomPath =>
       credential_path.text = home \o SLASH \o QWEN_DIR \o SLASH \o QWEN_CREDENTIAL_FILENAME
  /\ HomeRelative =>
       credential_path.text =
         IF startswith(Remainder, SLASH) THEN Remainder
         ELSE home \o SLASH \o Remainder

\* C15 as stated: the default path without a custom path, an absolute custom
\* path returned unchanged, and <home> joined with the remainder for ~/.
C15_AbsoluteUnchanged ==
  Resolved =>
    /\ DefaultAndHomeRelative
    /\ Absolute => credential_path.text = custom_path.text

\* C15, amended: <home>/.qwen/oauth_creds.json without a custom path (None or
\* empty); an absolute custom path is returned normalised, as os.path.abspath
\* does, so unchanged exactly when it was already normalised; for ~/ the
\* os.path.join of <home> and the remainder: <home>/<remainder>, or the
\* remainder alone when it begins with a slash.
C15_ResolvePath ==
  Resolved =>
    /\ DefaultAndHomeRelative
    /\ Absolute =>
         /\ IsNormalAbsolute(credential_path.text)
         /\ IsNormalAbsolute(custom_path.text) <=> credential_path.text = custom_path.text
C15_Witness ==
  /\ custom_path = Str(PATH_DOUBLE_SLASH)
  /\ credential_path = Str(<<"/", "t", "/", "c">>)

\* ---- C16
\* The call of p refreshed and its save has completed
Persisted(p) == Refreshed(p) /\ pc[p] \in {"derive", "returned"}
\* The lifetime, in seconds, the response to p announced
LifetimeOf(p) == Get(json_load(resp[p].body), "expires_in")

\* C16 as stated: for every successful response the saved record is valid at
\* the time of the save (taken where no time passed since the refresh).
C16_SavedRecordValid ==
  \A p \in Procs :
    (Persisted(p) /\ pc[p] = "derive" /\ now = trefresh[p]) =>
      is_token_valid(OnDisk, now)

\* C16, amended: after a call that refreshed and persisted, the record on
\* disk is valid exactly while less than expires_in*1000 - 30000 ms have
\* passed since refresh computed expiry_date; so it is valid at the time of
\* the save when expires_in exceeds 30 s by more than the time the refresh
\* and the save took, and is already stale when expires_in <= 30.
C16_SavedRecordValidWhile ==
  \A p \in Procs :
    Persisted(p) =>
      /\ is_token_valid(OnDisk, now) <=>
           now - trefresh[p] < LifetimeOf(p) * 1000 - TOKEN_REFRESH_BUFFER_MS
      /\ (LifetimeOf(p) > 30 /\ now = trefresh[p]) => is_token_valid(OnDisk, now)
      /\ LifetimeOf(p) <= 30 => ~is_token_valid(OnDisk, now)
\* A lifetime of 30 s: the record just saved is not valid
C16_Witness ==
  \E p \in Procs :
    /\ Persisted(p) /\ pc[p] = "derive" /\ now = trefresh[p]
    /\ LifetimeOf(p) = 30
    /\ ~is_token_valid(OnDisk, now)

\* ---- C17
\* C17: a call whose record is valid at load does not fail in the steps that
\* derive the base URL and build the descriptor, whatever fields other than
\* expiry_date the record lacks.  (After a successful refresh the record
\* always has access_token, so only the valid path can fail there.)
C17_ValidRecordGivesDescriptor ==
  \A p \in Procs : (Checked(p) /\ valid[p]) => pc[p] # "failed"

\* ---- C18
\* C18: a response whose parsed body has an error key makes refresh fail
\* with the rejection error, whatever the HTTP status.
C18_ErrorKeyIsRejection ==
  \A p \in Procs :
    (InRefresh(p) /\ resp[p] # NoResponse /\ resp[p].json
       /\ Has(json_load(resp[p].body), "error")) =>
      /\ pc[p] = "failed"
      /\ err[p] = "ValueError: Token refresh failed"

\* ---- C19
\* C19: refresh_access_token only makes its network call: when it has
\* returned or raised, the record passed to it is still the one loaded from
\* the file (old access_token, refresh_token and expiry_date), the file has
\* not been opened for writing and is as it was found, and one request at
\* most was sent.
C19_RefreshFrame ==
  \A p \in Procs :
    /\ Checked(p) => DictEq(loaded[p], FoundOnDisk(p))
    /\ (FailedInRefresh(p) \/ (Refreshed(p) /\ pc[p] = "save")) =>
         /\ writes[p] = 0
         /\ disk = disk0[p]
         /\ sent[p] <= 1
         /\ result[p] = NoResult
\* refresh returned a record with new values; the input keeps the old ones
C19_Witness ==
  \E p \in Procs :
    /\ Refreshed(p) /\ pc[p] = "save"
    /\ Get(cred[p], "access_token") = "A1" /\ Get(cred[p], "refresh_token") = "R1"
    /\ Has(loaded[p], "access_token") /\ Get(loaded[p], "access_token") = "A0"
    /\ Get(loaded[p], "refresh_token") = "R0"
    /\ Has(loaded[p], "expiry_date") /\ Get(loaded[p], "expiry_date") = Now0 - 60000

\* ---- C20
\* C20: every refresh request sent carries grant_type=refresh_token, the
\* fixed client_id and the refresh_token of the record the same call read
\* from disk.
C20_RequestFields ==
  \A p \in Procs :
    sent[p] >= 1 =>
      /\ req[p].grant_type = "refresh_token"
      /\ req[p].client_id = QWEN_OAUTH_CLIENT_ID
      /\ Has(FoundOnDisk(p), "refresh_token")
      /\ req[p].refresh_token = Get(FoundOnDisk(p), "refresh_token")
      /\ DOMAIN req[p] = {"grant_type", "client_id", "refresh_token"}
\* The second call of a caller sends the refresh token its first call saved
C20_Witness ==
  \E p \in Procs :
    /\ calls[p] = 2 /\ sent[p] = 1 /\ pc[p] = "await"
    /\ req[p].refresh_token = "R1"

\* ---- C21
\* The call of p has ended, by a return or by an exception
Ended(p) == pc[p] \in {"returned", "failed"}
\* The endpoint answered the request of p with a newly issued refresh token
IssuedTo(p) ==
  /\ resp[p] # NoResponse
  /\ Has(json_load(resp[p].body), "refresh_token")

\* C21: with calls that do not overlap and an endpoint that spends a refresh
\* token on use, a call that was answered with new tokens never ends with
\* the new refresh token lost: the file then holds a refresh token the
\* endpoint still accepts, also when a step of the refresh or the save
\* failed.
C21_IssuedRefreshTokenKept ==
  \A p \in Procs :
    (Ended(p) /\ IssuedTo(p)) =>
      /\ disk.exists /\ disk.wellformed
      /\ Has(OnDisk, "refresh_token")
      /\ Get(OnDisk, "refresh_token") \in provider.accepted

\* ---- C22
\* C22: with a single caller, when a descriptor is returned its api_key is
\* the access_token of the record in the file at that moment: the file is a
\* complete record, the one loaded when it was valid and the refreshed one,
\* fully written, after a refresh.
C22_ApiKeyIsOnDisk ==
  \A p \in Procs :
    pc[p] = "returned" =>
      /\ disk.exists /\ disk.wellformed
      /\ Has(OnDisk, "access_token")
      /\ result[p].api_key = Get(OnDisk, "access_token")
      /\ ~valid[p] => (writes[p] = 1 /\ DictEq(OnDisk, cred[p]))
\* A descriptor returned after a refresh: the new access token is in both
C22_Witness ==
  \E p \in Procs :
    /\ pc[p] = "returned" /\ ~valid[p]
    /\ result[p].api_key = "A1"
    /\ Get(OnDisk, "access_token") = "A1"
    /\ Has(FoundOnDisk(p), "access_token")
    /\ Get(FoundOnDisk(p), "access_token") = "A0"

====
